---- MODULE Spec2Model ----
(***************************************************************************)
(* A model of the concurrent image crawler of src/main.go: the Crawler     *)
(* (visited map under visitedLock, the WaitGroup wg, the buffered channel  *)
(* urlChan), Crawler.Start and the Crawler.worker goroutines.  The site    *)
(* being crawled (which URL serves which tags) and the outcome of every    *)
(* HTTP request are the inputs.                                            *)
(***************************************************************************)
EXTENDS Integers, Sequences, FiniteSets, TLC

\* src/main.go:22, the depth ceiling of the crawl.
MaxDepth == 3

\* The size of the worker pool (10 at src/main.go:23), scaled down.
MaxWorkers == 2

\* The capacity of urlChan (100 at src/main.go:38), scaled down.
ChanCap == 2

Workers == 1..MaxWorkers

-----------------------------------------------------------------------------
(* The sites.  A page body is the sequence of start tags the tokenizer     *)
(* yields, each with the attributes of the tag in document order.          *)

Attr(k, v) == [Key |-> k, Val |-> v]
Tag(d, as) == [Data |-> d, Attr |-> as]
A(href) == Tag("a", <<Attr("href", href)>>)
Img(src) == Tag("img", <<Attr("src", src)>>)

\* The attribute values that end in .jpg, .jpeg, .png, .gif or .bmp.
ImageSuffixed == {"a.png", "i1.jpg", "i2.gif"}

\* A page whose links outnumber the channel's slots and the workers together.
FanLen == ChanCap + MaxWorkers + 1
FanBody(u, v) == [k \in 1..FanLen |-> IF k % 3 = 0 THEN A(v) ELSE A(u)]

Site(seed, pages) == [seed |-> seed, pages |-> pages]

\* Scenario A: a seed page with no links and no images.
SiteEmpty == Site("seed", [u \in {"seed"} |-> <<>>])

\* Scenario B: one image and one link, plus tags the parser must skip.
SiteOne ==
  Site("seed",
       [u \in {"seed", "page2"} |->
          IF u = "seed"
          THEN <<Tag("p", <<>>), Img("a.png"), Img("logo.svg"),
                 Tag("a", <<Attr("class", "x"), Attr("href", "page2")>>)>>
          ELSE <<>>])

\* Scenario C: a cycle, with two images on the first page.
SiteCycle ==
  Site("A",
       [u \in {"A", "B"} |->
          IF u = "A" THEN <<Img("i1.jpg"), A("B"), Img("i2.gif")>>
          ELSE <<A("A")>>])

\* Scenario D, at the depth ceiling of the source: a chain longer than MaxDepth.
SiteChain ==
  Site("p1",
       [u \in {"p1", "p2", "p3", "p4", "p5"} |->
          CASE u = "p1" -> <<A("p2")>>
            [] u = "p2" -> <<A("p3")>>
            [] u = "p3" -> <<A("p4")>>
            [] u = "p4" -> <<A("p5")>>
            [] OTHER -> <<>>])

\* A fan-out that fills the channel.
SiteFan ==
  Site("seed",
       [u \in {"seed", "x", "y"} |->
          CASE u = "seed" -> FanBody("x", "y")
            [] u = "x" -> FanBody("seed", "y")
            [] OTHER -> <<>>])

\* A page (X) that is reachable along a short and along a long path.
SiteDiamond ==
  Site("seed",
       [u \in {"seed", "P", "X", "Y"} |->
          CASE u = "seed" -> <<A("P"), A("X")>>
            [] u = "P" -> <<A("X")>>
            [] u = "X" -> <<A("Y")>>
            [] OTHER -> <<>>])

\* A page (late) linked from the seed after a chain that also leads to it.
SiteLate ==
  Site("seed",
       [u \in {"seed", "q1", "q2", "late"} |->
          CASE u = "seed" -> <<A("q1"), A("late")>>
            [] u = "q1" -> <<A("q2")>>
            [] u = "q2" -> <<A("late")>>
            [] OTHER -> <<>>])

Sites == {SiteEmpty, SiteOne, SiteCycle, SiteChain, SiteFan, SiteDiamond,
          SiteLate}

URLs == {"seed", "page2", "A", "B", "p1", "p2", "p3", "p4", "p5", "x", "y",
         "P", "X", "Y", "q1", "q2", "late"}

-----------------------------------------------------------------------------
(* Pure functions of src/main.go.                                          *)

isImageURL(url) == url \in ImageSuffixed

RECURSIVE AttrVals(_, _, _)
\* The values of the attributes of `as` whose key is `key` and that pass
\* `keep`, in order: the inner loops of parseHTML.
AttrVals(as, key, imgOnly) ==
  IF as = <<>> THEN <<>>
  ELSE LET a == Head(as)
           take == a.Key = key /\ (imgOnly => isImageURL(a.Val))
       IN (IF take THEN <<a.Val>> ELSE <<>>) \o AttrVals(Tail(as), key, imgOnly)

RECURSIVE parseLinks(_)
parseLinks(body) ==
  IF body = <<>> THEN <<>>
  ELSE (IF Head(body).Data = "a"
        THEN AttrVals(Head(body).Attr, "href", FALSE) ELSE <<>>)
       \o parseLinks(Tail(body))

RECURSIVE parseImages(_)
parseImages(body) ==
  IF body = <<>> THEN <<>>
  ELSE (IF Head(body).Data = "img"
        THEN AttrVals(Head(body).Attr, "src", TRUE) ELSE <<>>)
       \o parseImages(Tail(body))

ImageURL(url, depth) == [URL |-> url, Depth |-> depth]

NoItem == ImageURL("", 0)


-----------------------------------------------------------------------------
(* The state.                                                              *)

VARIABLES
  site,        \* the site crawled: its seed URL and the body of every page
  startpc,     \* where Crawler.Start is: "launch", "seed", "wait", "done"
  launched,    \* the loop counter i of Crawler.Start
  wg,          \* the counter of c.wg
  urlChan,     \* the items buffered in c.urlChan, oldest first
  closed,      \* whether c.urlChan has been closed
  panicked,    \* whether a goroutine has panicked (a send on a closed channel)
  visited,     \* the URLs u with c.visited[u] = true
  wpc,         \* where each worker is
  witem,       \* the item a worker received last (imgURL)
  wlinks,      \* the links parseHTML returned to a worker
  wimages,     \* the images parseHTML returned to a worker
  wi,          \* the index of the next image a worker downloads
  wj,          \* the index of the next link a worker sends
  \* What has happened so far (observations, read by no action).
  wfetched,    \* whether the fetch of witem succeeded
  wdl,         \* the downloads a worker attempted for witem: <<image, ok>>
  wsent,       \* the items a worker sent for witem
  claims,      \* per URL, how often the check-and-mark observed it absent
  fetches,     \* per URL, how many page fetches were issued
  fetchLog,    \* the items a page fetch was issued for
  fetchFailed, \* the URLs whose page fetch failed
  failedWorkers, \* the workers a page fetch has failed for
  downloads,   \* how many image downloads were attempted
  nPushed,     \* how many sends on urlChan completed
  nPopped,     \* how many receives from urlChan yielded an item
  discardedDepth, \* the items dropped for their depth
  discardedDup    \* the items dropped because their URL was visited

prog == <<site, startpc, launched, wg, urlChan, closed, panicked, visited,
          wpc, witem, wlinks, wimages, wi, wj>>
hist == <<wfetched, wdl, wsent, claims, fetches, fetchLog, fetchFailed,
          failedWorkers, downloads, nPushed, nPopped, discardedDepth,
          discardedDup>>
vars == <<prog, hist>>

Body(url) == site.pages[url]

Active == {"Claiming", "Fetching", "Dispatching"}

Init ==
  /\ site \in Sites
  /\ startpc = "launch"
  /\ launched = 0
  /\ wg = 0
  /\ urlChan = <<>>
  /\ closed = FALSE
  /\ panicked = FALSE
  /\ visited = {}
  /\ wpc = [w \in Workers |-> "NotStarted"]
  /\ witem = [w \in Workers |-> NoItem]
  /\ wlinks = [w \in Workers |-> <<>>]
  /\ wimages = [w \in Workers |-> <<>>]
  /\ wi = [w \in Workers |-> 1]
  /\ wj = [w \in Workers |-> 1]
  /\ wfetched = [w \in Workers |-> FALSE]
  /\ wdl = [w \in Workers |-> <<>>]
  /\ wsent = [w \in Workers |-> <<>>]
  /\ claims = [u \in URLs |-> 0]
  /\ fetches = [u \in URLs |-> 0]
  /\ fetchLog = {}
  /\ fetchFailed = {}
  /\ failedWorkers = {}
  /\ downloads = 0
  /\ nPushed = 0
  /\ nPopped = 0
  /\ discardedDepth = {}
  /\ discardedDup = {}

-----------------------------------------------------------------------------
(* The primitives.                                                         *)

CanSendAlways(ch) == TRUE

\* A send on the buffered channel proceeds once a slot is free.
CanSend(ch) == Len(ch) < ChanCap

WaitReleasedWhenEmpty(n) == Len(urlChan) = 0

RangeEndsWhenEmpty(ch, isClosed) == Len(ch) = 0

\* `range` over a channel ends once the channel is closed and empty.
RangeEnds(ch, isClosed) == isClosed /\ Len(ch) = 0

\* wg.Wait() returns once the counter is zero.
WaitReleased(n) == n = 0

OverDepthOffByOne(depth) == depth > MaxDepth + 1

OverDepthNever(depth) == FALSE

OverDepthStrict(depth) == depth >= MaxDepth

\* The test of line 119.
OverDepth(depth) == depth > MaxDepth

MarkVisitedForgets(v, url) == v

MarkVisitedReplaces(v, url) == {url}

\* Line 128, under visitedLock.
MarkVisited(v, url) == v \cup {url}

ChildDepthSame(depth) == depth

ChildDepthSkips(depth) == depth + 2

\* The depth of the items of line 148.
ChildDepth(depth) == depth + 1

AfterFetchErrorExit == "Terminated"

\* Where a worker goes after a failed fetch: `continue`, the next receive.
AfterFetchError == "Idle"

AfterDownloadAbort(i, ok, n) == IF ok THEN i + 1 ELSE n + 1

AfterDownloadSkips(i, ok, n) == i + 2

\* The image loop's index after a download, failed or not (lines 141-145).
AfterDownload(i, ok, n) == i + 1

\* Where a worker stands with image index i of n and link index j of m.
DispatchPC(i, n, j, m) == IF i <= n \/ j <= m THEN "Dispatching" ELSE "Idle"

-----------------------------------------------------------------------------
(* Crawler.Start, lines 153-163.  One step per statement; the position is  *)
(* startpc.  wg.Wait() and close(c.urlChan) are the step at "wait".        *)
(* wg is lowered only by a worker that leaves its loop, which needs the    *)
(* channel closed, so the step at "wait" is never enabled (C1, C5); it is  *)
(* a case of Start rather than an action of its own for that reason.       *)

Start ==
  /\ ~panicked
  /\ startpc # "done"
  /\ CASE startpc = "launch" ->
            \* c.wg.Add(1); go c.worker()
            /\ wg' = wg + 1
            /\ launched' = launched + 1
            /\ wpc' = [wpc EXCEPT ![launched + 1] = "Idle"]
            /\ startpc' = IF launched + 1 < MaxWorkers THEN "launch" ELSE "seed"
            /\ UNCHANGED <<urlChan, closed, nPushed>>
       [] startpc = "seed" ->
            \* c.urlChan <- ImageURL{URL: startURL, Depth: 1}
            /\ CanSend(urlChan)
            /\ urlChan' = Append(urlChan, ImageURL(site.seed, 1))
            /\ nPushed' = nPushed + 1
            /\ startpc' = "wait"
            /\ UNCHANGED <<wg, launched, wpc, closed>>
       [] startpc = "wait" ->
            \* c.wg.Wait(); close(c.urlChan)
            /\ WaitReleased(wg)
            /\ closed' = TRUE
            /\ startpc' = "done"
            /\ UNCHANGED <<wg, launched, wpc, urlChan, nPushed>>
  /\ UNCHANGED <<site, panicked, visited, witem, wlinks, wimages, wi, wj>>
  /\ UNCHANGED <<wfetched, wdl, wsent, claims, fetches, fetchLog, fetchFailed,
                 failedWorkers, downloads, nPopped, discardedDepth,
                 discardedDup>>

-----------------------------------------------------------------------------
(* Crawler.worker, lines 115-151.                                          *)

\* `for imgURL := range c.urlChan`: the receive yields the oldest item, or
\* ends the loop once the channel is closed and empty; the deferred
\* c.wg.Done() then runs (line 116).
WorkerRecv(w) ==
  /\ ~panicked
  /\ wpc[w] = "Idle"
  /\ IF Len(urlChan) > 0
     THEN /\ witem' = [witem EXCEPT ![w] = Head(urlChan)]
          /\ urlChan' = Tail(urlChan)
          /\ nPopped' = nPopped + 1
          /\ wpc' = [wpc EXCEPT ![w] = "Claiming"]
          /\ wlinks' = [wlinks EXCEPT ![w] = <<>>]
          /\ wimages' = [wimages EXCEPT ![w] = <<>>]
          /\ wi' = [wi EXCEPT ![w] = 1]
          /\ wj' = [wj EXCEPT ![w] = 1]
          /\ wfetched' = [wfetched EXCEPT ![w] = FALSE]
          /\ wdl' = [wdl EXCEPT ![w] = <<>>]
          /\ wsent' = [wsent EXCEPT ![w] = <<>>]
          /\ UNCHANGED wg
     ELSE /\ RangeEnds(urlChan, closed)
          /\ wpc' = [wpc EXCEPT ![w] = "Terminated"]
          /\ wg' = wg - 1
          /\ UNCHANGED <<urlChan, nPopped, witem, wlinks, wimages, wi, wj,
                         wfetched, wdl, wsent>>
  /\ UNCHANGED <<site, startpc, launched, closed, panicked, visited>>
  /\ UNCHANGED <<claims, fetches, fetchLog, fetchFailed, failedWorkers,
                 downloads, nPushed, discardedDepth, discardedDup>>

\* Lines 119-121: an item past MaxDepth is dropped.
WorkerDiscard(w) ==
  /\ ~panicked
  /\ wpc[w] = "Claiming"
  /\ OverDepth(witem[w].Depth)
  /\ wpc' = [wpc EXCEPT ![w] = "Idle"]
  /\ discardedDepth' = discardedDepth \cup {witem[w]}
  /\ UNCHANGED <<site, startpc, launched, wg, urlChan, closed, panicked,
                 visited, witem, wlinks, wimages, wi, wj>>
  /\ UNCHANGED <<wfetched, wdl, wsent, claims, fetches, fetchLog, fetchFailed,
                 failedWorkers, downloads, nPushed, nPopped, discardedDup>>

\* Lines 123-127: under the lock, the URL is found visited; the item is dropped.
WorkerSkipVisited(w) ==
  /\ ~panicked
  /\ wpc[w] = "Claiming"
  /\ ~OverDepth(witem[w].Depth)
  /\ witem[w].URL \in visited
  /\ wpc' = [wpc EXCEPT ![w] = "Idle"]
  /\ discardedDup' = discardedDup \cup {witem[w]}
  /\ UNCHANGED <<site, startpc, launched, wg, urlChan, closed, panicked,
                 visited, witem, wlinks, wimages, wi, wj>>
  /\ UNCHANGED <<wfetched, wdl, wsent, claims, fetches, fetchLog, fetchFailed,
                 failedWorkers, downloads, nPushed, nPopped, discardedDepth>>

\* Lines 123-129: under the lock, the URL is found absent and is marked.
WorkerClaim(w) ==
  /\ ~panicked
  /\ wpc[w] = "Claiming"
  /\ ~OverDepth(witem[w].Depth)
  /\ witem[w].URL \notin visited
  /\ visited' = MarkVisited(visited, witem[w].URL)
  /\ claims' = [claims EXCEPT ![witem[w].URL] = @ + 1]
  /\ wpc' = [wpc EXCEPT ![w] = "Fetching"]
  /\ UNCHANGED <<site, startpc, launched, wg, urlChan, closed, panicked,
                 witem, wlinks, wimages, wi, wj>>
  /\ UNCHANGED <<wfetched, wdl, wsent, fetches, fetchLog, fetchFailed,
                 failedWorkers, downloads, nPushed, nPopped, discardedDepth,
                 discardedDup>>

\* Lines 131-138: the page fetch, which fails (`continue`) or yields the body
\* that parseHTML turns into links and images.
WorkerFetch(w) ==
  /\ ~panicked
  /\ wpc[w] = "Fetching"
  /\ fetches' = [fetches EXCEPT ![witem[w].URL] = @ + 1]
  /\ fetchLog' = fetchLog \cup {witem[w]}
  /\ \E ok \in BOOLEAN :
       IF ok
       THEN LET links == parseLinks(Body(witem[w].URL))
                images == parseImages(Body(witem[w].URL))
            IN /\ wlinks' = [wlinks EXCEPT ![w] = links]
               /\ wimages' = [wimages EXCEPT ![w] = images]
               /\ wfetched' = [wfetched EXCEPT ![w] = TRUE]
               /\ wpc' = [wpc EXCEPT ![w] =
                            DispatchPC(1, Len(images), 1, Len(links))]
               /\ UNCHANGED <<fetchFailed, failedWorkers>>
       ELSE /\ fetchFailed' = fetchFailed \cup {witem[w].URL}
            /\ failedWorkers' = failedWorkers \cup {w}
            /\ wpc' = [wpc EXCEPT ![w] = AfterFetchError]
            /\ UNCHANGED <<wlinks, wimages, wfetched>>
  /\ UNCHANGED <<site, startpc, launched, wg, urlChan, closed, panicked,
                 visited, witem, wi, wj>>
  /\ UNCHANGED <<wdl, wsent, claims, downloads, nPushed, nPopped,
                 discardedDepth, discardedDup>>

\* Lines 141-145: c.downloadImage(img) for the next image; an error is
\* printed and the loop goes on.
WorkerDownload(w) ==
  /\ ~panicked
  /\ wpc[w] = "Dispatching"
  /\ wi[w] <= Len(wimages[w])
  /\ \E ok \in BOOLEAN :
       /\ wdl' = [wdl EXCEPT ![w] = Append(@, <<wimages[w][wi[w]], ok>>)]
       /\ wi' = [wi EXCEPT ![w] = AfterDownload(@, ok, Len(wimages[w]))]
  /\ downloads' = downloads + 1
  /\ wpc' = [wpc EXCEPT ![w] =
               DispatchPC(wi'[w], Len(wimages[w]), wj[w], Len(wlinks[w]))]
  /\ UNCHANGED <<site, startpc, launched, wg, urlChan, closed, panicked,
                 visited, witem, wlinks, wimages, wj>>
  /\ UNCHANGED <<wfetched, wsent, claims, fetches, fetchLog, fetchFailed,
                 failedWorkers, nPushed, nPopped, discardedDepth,
                 discardedDup>>

\* Lines 147-149: the send of the next link, one level deeper.  It waits for
\* a free slot; on a closed channel it panics.
WorkerSend(w) ==
  /\ ~panicked
  /\ wpc[w] = "Dispatching"
  /\ wi[w] > Len(wimages[w])
  /\ wj[w] <= Len(wlinks[w])
  /\ closed \/ CanSend(urlChan)
  /\ IF closed
     THEN /\ panicked' = TRUE
          /\ UNCHANGED <<urlChan, wj, wpc, wsent, nPushed>>
     ELSE LET item == ImageURL(wlinks[w][wj[w]], ChildDepth(witem[w].Depth))
          IN /\ urlChan' = Append(urlChan, item)
             /\ wsent' = [wsent EXCEPT ![w] = Append(@, item)]
             /\ nPushed' = nPushed + 1
             /\ wj' = [wj EXCEPT ![w] = @ + 1]
             /\ wpc' = [wpc EXCEPT ![w] =
                          DispatchPC(wi[w], Len(wimages[w]),
                                     wj[w] + 1, Len(wlinks[w]))]
             /\ UNCHANGED panicked
  /\ UNCHANGED <<site, startpc, launched, wg, closed, visited, witem, wlinks,
                 wimages, wi>>
  /\ UNCHANGED <<wfetched, wdl, claims, fetches, fetchLog, fetchFailed,
                 failedWorkers, downloads, nPopped, discardedDepth,
                 discardedDup>>

Worker(w) ==
  \/ WorkerRecv(w)
  \/ WorkerDiscard(w)
  \/ WorkerSkipVisited(w)
  \/ WorkerClaim(w)
  \/ WorkerFetch(w)
  \/ WorkerDownload(w)
  \/ WorkerSend(w)

Next == Start \/ \E w \in Workers : Worker(w)

Spec == Init /\ [][Next]_vars

\* Every goroutine that can take a step eventually takes one.
FairSpec == Spec /\ WF_vars(Start) /\ \A w \in Workers : WF_vars(Worker(w))

TypeOK ==
  /\ startpc \in {"launch", "seed", "wait", "done"}
  /\ launched \in 0..MaxWorkers
  /\ wg \in 0..MaxWorkers
  /\ Len(urlChan) <= ChanCap + 1
  /\ \A w \in Workers :
       wpc[w] \in {"NotStarted", "Idle", "Terminated"} \cup Active


-----------------------------------------------------------------------------
(* The properties.                                                         *)

Links(w) == parseLinks(Body(witem[w].URL))
Images(w) == parseImages(Body(witem[w].URL))

\* C1: under fair scheduling, on every site and whatever fetches fail,
\* Start eventually returns with the channel closed and every worker
\* terminated.
C1_StartReturns ==
  <>(startpc = "done" /\ closed /\ \A w \in Workers : wpc[w] = "Terminated")

\* C2: for every URL the check-and-mark observes it absent at most once, and
\* at most one page fetch is issued for it.
C2_ClaimedAtMostOnce ==
  \A u \in URLs : claims[u] <= 1 /\ fetches[u] <= 1

\* On the cycle, A and B were both fetched and A came back from B's page.
C2_Witness ==
  /\ site = SiteCycle
  /\ fetches["A"] = 1 /\ fetches["B"] = 1
  /\ ImageURL("A", 3) \in discardedDup

\* C3: every page fetch, issued or in progress, is for an item whose depth
\* is at most MaxDepth; an item dropped for its depth caused no fetch.
C3_NoFetchPastMaxDepth ==
  /\ \A it \in fetchLog : it.Depth <= MaxDepth
  /\ \A w \in Workers :
       wpc[w] \in {"Fetching", "Dispatching"} => witem[w].Depth <= MaxDepth
  /\ \A it \in discardedDepth : it.Depth > MaxDepth /\ it \notin fetchLog

\* A worker has just dropped an item past MaxDepth whose URL was never fetched.
C3_Witness ==
  \E w \in Workers :
    /\ wpc[w] = "Idle"
    /\ witem[w].Depth > MaxDepth
    /\ witem[w] \in discardedDepth
    /\ fetches[witem[w].URL] = 0

\* C4: whenever the channel is closed it is empty and no worker is between a
\* receive and the end of its sends, and no send ever hits a closed channel.
C4_ClosedOnlyWhenDrained ==
  /\ ~panicked
  /\ closed => Len(urlChan) = 0 /\ \A w \in Workers : wpc[w] \notin Active

\* Start waits, the channel is empty for the moment, and a worker that has
\* already sent a link of its page is still sending: the channel is open.
C4_Witness ==
  /\ startpc = "wait"
  /\ Len(urlChan) = 0
  /\ ~closed
  /\ \E w \in Workers :
       wpc[w] = "Dispatching" /\ wsent[w] # <<>> /\ wj[w] <= Len(wlinks[w])

\* C5: once the workers are launched, the count Start waits on equals the
\* number of items received and not yet completed.
C5_CountIsOutstanding ==
  startpc # "launch" =>
    wg = Cardinality({w \in Workers : wpc[w] \in Active})

\* C6: on the site with no links and no images, once the seed is fetched the
\* crawl completes with no download and only the seed visited.
C6_EmptySeedCompletes ==
  (site = SiteEmpty /\ \E w \in Workers : wfetched[w])
    ~> (startpc = "done" /\ downloads = 0 /\ visited = {"seed"})

\* C7: a step in which a worker's page fetch fails takes that worker to its
\* next receive, sends nothing, downloads nothing and leaves the URL visited;
\* a URL whose fetch failed is never fetched again.
C7_FetchFailureIsLocal ==
  [][/\ \A w \in Workers :
          (wpc[w] = "Fetching" /\ wpc'[w] # "Fetching" /\ ~wfetched'[w]) =>
             /\ wpc'[w] = "Idle"
             /\ urlChan' = urlChan
             /\ downloads' = downloads
             /\ wsent'[w] = <<>> /\ wdl'[w] = <<>>
             /\ witem[w].URL \in visited'
     /\ \A u \in fetchFailed : fetches'[u] = fetches[u] /\ u \in visited'
    ]_vars

\* A worker whose fetch failed before has fetched another page, and a URL
\* whose fetch failed was received again and dropped.
C7_Witness ==
  /\ \E w \in failedWorkers : wfetched[w] /\ witem[w].URL \notin fetchFailed
  /\ \E it \in discardedDup : it.URL \in fetchFailed /\ fetches[it.URL] = 1

\* C8: whatever the outcomes of a page's downloads, the worker attempts the
\* page's images in order, all of them before its first send, and sends the
\* page's links in order, all of them before its next receive.
C8_DownloadFailureKeepsLinks ==
  \A w \in Workers :
    wfetched[w] =>
      /\ wsent[w] = [k \in 1..(wj[w] - 1) |->
                       ImageURL(Links(w)[k], witem[w].Depth + 1)]
      /\ [k \in 1..Len(wdl[w]) |-> wdl[w][k][1]]
           = SubSeq(Images(w), 1, Len(wdl[w]))
      /\ (wj[w] > 1 \/ wpc[w] = "Idle") => Len(wdl[w]) = Len(Images(w))
      /\ wpc[w] = "Idle" => wj[w] = Len(Links(w)) + 1

\* A page is done: a download failed, a later one was attempted, and the
\* links were sent.
C8_Witness ==
  \E w \in Workers :
    /\ wfetched[w] /\ wpc[w] = "Idle"
    /\ wsent[w] # <<>>
    /\ \E k \in 1..(Len(wdl[w]) - 1) : wdl[w][k][2] = FALSE

\* C9: the channel never holds more than its capacity, every item sent is
\* in the channel or was received, and a worker has sent one item for every
\* link it went past.
C9_Backpressure ==
  /\ Len(urlChan) <= ChanCap
  /\ nPushed = nPopped + Len(urlChan)
  /\ \A w \in Workers : wfetched[w] => Len(wsent[w]) = wj[w] - 1

\* The channel is full and a worker with a link left to send is waiting.
C9_Witness ==
  /\ Len(urlChan) = ChanCap
  /\ nPopped > 1
  /\ \E w \in Workers :
       /\ wpc[w] = "Dispatching"
       /\ wi[w] > Len(wimages[w])
       /\ wj[w] > 1 /\ wj[w] <= Len(wlinks[w])

\* C10: every item a worker sends is one level below its page, also past
\* MaxDepth; an item received past MaxDepth is dropped and not fetched.
C10_DepthFilterAtClaim ==
  /\ \A w \in Workers :
       /\ \A k \in 1..Len(wsent[w]) :
            wsent[w][k].Depth = witem[w].Depth + 1
       /\ (wfetched[w] /\ wpc[w] = "Idle") => Len(wsent[w]) = Len(Links(w))
       /\ (witem[w].Depth > MaxDepth /\ wpc[w] # "Claiming") =>
            wpc[w] = "Idle" /\ witem[w] \in discardedDepth /\ ~wfetched[w]
  /\ \A it \in discardedDepth : fetches[it.URL] > 0 =>
       \E f \in fetchLog : f.URL = it.URL /\ f.Depth <= MaxDepth

\* On the chain, the page at MaxDepth was fetched, its link was sent one level
\* deeper and dropped, and the linked page was never fetched.
C10_Witness ==
  /\ site = SiteChain
  /\ ImageURL("p3", MaxDepth) \in fetchLog
  /\ ImageURL("p4", MaxDepth + 1) \in discardedDepth
  /\ fetches["p4"] = 0

\* C11: a step in which a worker leaves the depth test with an item past
\* MaxDepth drops the item and leaves the visited set and the claim counts as
\* they were; a URL dropped for its depth is visited only if it was claimed
\* from an item of depth at most MaxDepth.
C11_DiscardClaimsNothing ==
  [][/\ \A w \in Workers :
          (wpc[w] = "Claiming" /\ witem[w].Depth > MaxDepth
             /\ wpc'[w] # "Claiming") =>
             /\ wpc'[w] = "Idle"
             /\ visited' = visited
             /\ claims' = claims
             /\ fetches' = fetches
     /\ \A it \in discardedDepth' :
          it.URL \in visited' =>
            \E w \in Workers :
              \/ wpc'[w] = "Fetching" /\ witem'[w].URL = it.URL
              \/ \E f \in fetchLog' : f.URL = it.URL /\ f.Depth <= MaxDepth
    ]_vars

\* The page `late` was dropped at depth MaxDepth + 1 while still unvisited;
\* received again at depth 2 it was claimed and is being fetched.
C11_Witness ==
  /\ site = SiteLate
  /\ ImageURL("late", MaxDepth + 1) \in discardedDepth
  /\ discardedDup = {}
  /\ \E w \in Workers :
       /\ wpc[w] = "Fetching"
       /\ witem[w] = ImageURL("late", 2)
       /\ claims["late"] = 1

\* C12: every step keeps every visited URL visited, and a step that adds
\* to the visited set adds exactly the URL of an item of depth at most
\* MaxDepth that a worker holds at the claim, and moves that worker on to
\* the fetch.
C12_VisitedOnlyGrows ==
  [][/\ visited \subseteq visited'
     /\ visited' # visited =>
          \E w \in Workers :
            /\ wpc[w] = "Claiming" /\ wpc'[w] = "Fetching"
            /\ witem[w].Depth <= MaxDepth
            /\ witem[w].URL \notin visited
            /\ visited' = visited \cup {witem[w].URL}
            /\ claims'[witem[w].URL] = claims[witem[w].URL] + 1
    ]_vars

\* Three URLs have been claimed one after the other and all are still visited.
C12_Witness ==
  /\ Cardinality(visited) >= 3
  /\ \A u \in URLs : claims[u] = 1 <=> u \in visited
  /\ \E it \in discardedDup : it.URL \in visited

\* C13: a worker becomes Terminated only from its receive, with the channel
\* closed and empty; while the channel is open no worker is Terminated; a
\* Terminated worker stays so and receives, fetches and sends nothing more.
C13_ExitOnlyOnDrain ==
  [][\A w \in Workers :
       /\ (wpc[w] # "Terminated" /\ wpc'[w] = "Terminated") =>
             wpc[w] = "Idle" /\ closed /\ Len(urlChan) = 0
       /\ ~closed' => wpc'[w] # "Terminated"
       /\ wpc[w] = "Terminated" =>
             /\ wpc'[w] = "Terminated"
             /\ witem'[w] = witem[w]
             /\ wsent'[w] = wsent[w]
             /\ wdl'[w] = wdl[w]
    ]_vars

\* The frontier is exhausted: the channel is open and empty, items were
\* received, and every worker waits in its receive; none has left its loop.
C13_Witness ==
  /\ startpc = "wait"
  /\ ~closed
  /\ Len(urlChan) = 0
  /\ nPopped >= 2
  /\ \A w \in Workers : wpc[w] = "Idle" /\ witem[w] # NoItem

\* C14: a worker has attempted one download for each image it went past,
\* in the order of the page, and all of the page's images before its first
\* send; it has sent one item per link it went past, in the order of the
\* page, and all of them before its next receive; only launched workers
\* fetch or download.
C14_SequentialDispatch ==
  /\ \A w \in Workers :
       /\ wfetched[w] =>
            /\ Len(wdl[w]) = wi[w] - 1
            /\ \A k \in 1..Len(wdl[w]) :
                 k <= Len(Images(w)) /\ wdl[w][k][1] = Images(w)[k]
            /\ Len(wsent[w]) = wj[w] - 1
            /\ \A k \in 1..Len(wsent[w]) :
                 k <= Len(Links(w)) /\ wsent[w][k].URL = Links(w)[k]
            /\ wsent[w] # <<>> => Len(wdl[w]) = Len(Images(w))
            /\ wpc[w] = "Idle" =>
                 Len(wdl[w]) = Len(Images(w)) /\ Len(wsent[w]) = Len(Links(w))
       /\ wpc[w] \in {"Claiming", "Fetching"} =>
            wsent[w] = <<>> /\ wdl[w] = <<>>
  /\ Cardinality({w \in Workers : wpc[w] \in Active}) <= launched
  /\ launched <= MaxWorkers

\* Scenario B: the seed's image was downloaded, then its link was sent, and
\* the linked page has been fetched once at depth 2.
C14_Witness ==
  /\ site = SiteOne
  /\ \E w \in Workers :
       /\ witem[w] = ImageURL("seed", 1)
       /\ wdl[w] = << <<"a.png", TRUE>> >>
       /\ wsent[w] = <<ImageURL("page2", 2)>>
  /\ fetchLog = {ImageURL("seed", 1), ImageURL("page2", 2)}
  /\ downloads = 1

\* A worker holds a link it cannot send until a slot is free.
BlockedInSend(w) ==
  /\ wpc[w] = "Dispatching"
  /\ wi[w] > Len(wimages[w])
  /\ wj[w] <= Len(wlinks[w])
  /\ ~CanSend(urlChan)

\* C15: in no reachable state is the channel full with every worker waiting
\* in a send.
C15_NoSendDeadlock ==
  ~(Len(urlChan) = ChanCap /\ \A w \in Workers : BlockedInSend(w))

\* C16: every item in the channel or held by a worker has a depth from 1 to
\* MaxDepth + 1; the only item of depth 1 is the seed, sent by Start; every
\* item a worker sent is one level below the page it holds, and that page is
\* not past MaxDepth.
C16_DepthRange ==
  /\ \A k \in 1..Len(urlChan) :
       /\ urlChan[k].Depth \in 1..(MaxDepth + 1)
       /\ urlChan[k].Depth = 1 => urlChan[k] = ImageURL(site.seed, 1)
  /\ startpc \in {"launch", "seed"} => urlChan = <<>> /\ nPushed = 0
  /\ (startpc = "wait" /\ nPushed = 1 /\ nPopped = 0) =>
       urlChan = <<ImageURL(site.seed, 1)>>
  /\ \A w \in Workers :
       /\ witem[w] # NoItem =>
            /\ witem[w].Depth \in 1..(MaxDepth + 1)
            /\ witem[w].Depth = 1 => witem[w].URL = site.seed
       /\ wsent[w] # <<>> =>
            /\ witem[w].Depth <= MaxDepth
            /\ \A k \in 1..Len(wsent[w]) :
                 wsent[w][k].Depth = witem[w].Depth + 1

\* The seed was fetched at depth 1 and an item of depth MaxDepth + 1, sent by
\* a worker that holds a page of depth MaxDepth, is in the channel.
C16_Witness ==
  /\ ImageURL(site.seed, 1) \in fetchLog
  /\ \E k \in 1..Len(urlChan) : urlChan[k].Depth = MaxDepth + 1
  /\ \E w \in Workers : witem[w].Depth = MaxDepth /\ wsent[w] # <<>>

\* The URLs a page links to.
LinkSet(url) ==
  {parseLinks(Body(url))[k] : k \in 1..Len(parseLinks(Body(url)))}

RECURSIVE WithinDepth(_)
\* The URLs whose shortest chain of links from the seed puts them at depth
\* d or less, the seed being at depth 1.
WithinDepth(d) ==
  IF d <= 1 THEN {site.seed}
  ELSE LET near == WithinDepth(d - 1)
       IN near \cup UNION {LinkSet(u) : u \in near}

\* The frontier is exhausted: the channel is empty and every worker waits in
\* its receive.
Quiescent ==
  /\ startpc = "wait"
  /\ urlChan = <<>>
  /\ \A w \in Workers : wpc[w] = "Idle"

\* C17, as claimed: when no fetch failed, in every quiescent state every URL
\* whose shortest distance from the seed puts it at depth MaxDepth or less
\* has been fetched.
C17_CoverageAnyOrder ==
  (Quiescent /\ fetchFailed = {}) =>
    \A u \in WithinDepth(MaxDepth) : fetches[u] >= 1

\* C17, amended: when no fetch failed, in every quiescent state the seed has
\* been fetched, and so has every URL linked from a page that was fetched at
\* a depth below MaxDepth (the depth at which that page was claimed, which
\* need not be its shortest distance from the seed).
C17_CoverageFromClaimDepth ==
  (Quiescent /\ fetchFailed = {}) =>
    /\ fetches[site.seed] = 1
    /\ \A f \in fetchLog :
         f.Depth < MaxDepth => \A l \in LinkSet(f.URL) : fetches[l] = 1

\* On the diamond the crawl is over with no failure: X was claimed at depth 3
\* through P, so its link Y, two links from the seed, was never fetched.
C17_Witness ==
  /\ site = SiteDiamond
  /\ Quiescent
  /\ fetchFailed = {}
  /\ ImageURL("X", MaxDepth) \in fetchLog
  /\ "Y" \in WithinDepth(MaxDepth)
  /\ fetches["Y"] = 0
  /\ ImageURL("Y", MaxDepth + 1) \in discardedDepth

====
